---- MODULE Spec2Model ----
(***************************************************************************)
(* Model of the convex multi-commodity flow repository:                    *)
(*   - modelos.py            Enlace / Path / Commodity                     *)
(*   - funciones.py          cost model and the iterative engine           *)
(*   - fat_tree_topology.py  encontrar_k_paths_mas_cortos                  *)
(*   - ring_topology.py      encontrar_k_paths_bfs, generar_anillo_simple  *)
(*                                                                         *)
(* Python floats are modelled as decimal floating-point numbers            *)
(* [m |-> mantissa, e |-> exponent] of value m * 10^e with a six digit     *)
(* mantissa; every arithmetic operation rounds its result to six digits,   *)
(* as every IEEE operation rounds to the nearest double.                   *)
(***************************************************************************)
EXTENDS Integers, Sequences, FiniteSets, TLC

(***************************************************************************)
(* Floating point                                                          *)
(***************************************************************************)

\* Mantissas of non-zero floats lie in MantLo .. MantHi - 1 (six digits).
MantLo == 100 * 1000
MantHi == 1000 * 1000

Abs(n) == IF n < 0 THEN -n ELSE n
Sgn(n) == IF n < 0 THEN -1 ELSE IF n > 0 THEN 1 ELSE 0

RECURSIVE Pow10(_)
Pow10(k) == IF k <= 0 THEN 1 ELSE 10 * Pow10(k - 1)

\* Number of decimal digits of n > 0.
RECURSIVE NumDigits(_)
NumDigits(n) == IF n < 10 THEN 1 ELSE 1 + NumDigits(n \div 10)

FZero == [m |-> 0, e |-> 0]

\* The float nearest to n * 10^e (n any integer TLC can hold): the mantissa is
\* brought to six digits, rounding half away from zero.
Norm(n, e) ==
    IF n = 0 THEN FZero
    ELSE LET a == Abs(n)
             d == NumDigits(a)
         IN  IF d <= 6
             THEN [m |-> Sgn(n) * a * Pow10(6 - d), e |-> e - (6 - d)]
             ELSE LET p == Pow10(d - 6)
                      r == (a \div p) + (IF 2 * (a % p) >= p THEN 1 ELSE 0)
                  IN  IF r >= MantHi
                      THEN [m |-> Sgn(n) * MantLo, e |-> e + (d - 6) + 1]
                      ELSE [m |-> Sgn(n) * r, e |-> e + (d - 6)]

\* An integer, and a decimal literal n * 10^e, as floats.
FInt(n) == Norm(n, 0)
FLit(n, e) == Norm(n, e)

FNeg(a) == [m |-> -a.m, e |-> a.e]

\* a + b. The operand of larger exponent is widened by three digits and the
\* other aligned to it, so the sum is exact to nine digits before rounding.
FAdd(a, b) ==
    IF a.m = 0 THEN b
    ELSE IF b.m = 0 THEN a
    ELSE LET hi == IF a.e >= b.e THEN a ELSE b
             lo == IF a.e >= b.e THEN b ELSE a
             d  == hi.e - lo.e
             lm == IF d <= 3 THEN lo.m * Pow10(3 - d)
                   ELSE IF d - 3 >= 7 THEN 0
                   ELSE Sgn(lo.m) * (Abs(lo.m) \div Pow10(d - 3))
         IN  Norm(hi.m * 1000 + lm, hi.e - 3)

FSub(a, b) == FAdd(a, FNeg(b))

\* a * b: the twelve digit product of the mantissas, cut to its leading
\* six or seven digits and rounded.
FMul(a, b) ==
    IF a.m = 0 \/ b.m = 0 THEN FZero
    ELSE LET x  == Abs(a.m)
             y  == Abs(b.m)
             x1 == x \div 1000
             x0 == x % 1000
             y1 == y \div 1000
             y0 == y % 1000
             low == (x1 * y0 + x0 * y1) * 1000 + x0 * y0
             q  == (x1 * y1) * 10 + (low \div (100 * 1000))
         IN  Norm(Sgn(a.m) * Sgn(b.m) * q, a.e + b.e + 5)

\* a / b for b # 0: long division of the mantissas to seven digits, rounded.
FDiv(a, b) ==
    IF a.m = 0 THEN FZero
    ELSE LET x  == Abs(a.m)
             y  == Abs(b.m)
             q1 == (x * 1000) \div y
             r1 == (x * 1000) % y
             q2 == (r1 * 1000) \div y
         IN  Norm(Sgn(a.m) * Sgn(b.m) * (q1 * 1000 + q2), a.e - b.e - 6)

FLt(a, b) == FSub(a, b).m < 0
FGt(a, b) == FLt(b, a)
FLe(a, b) == ~FLt(b, a)
FAbs(a) == [m |-> Abs(a.m), e |-> a.e]

\* Python's max(0.0, x).
FMax0(x) == IF FGt(x, FZero) THEN x ELSE FZero


(***************************************************************************)
(* Python dicts (insertion ordered): sequences of [k |-> key, v |-> value] *)
(***************************************************************************)

DictHas(d, k) == \E n \in 1..Len(d) : d[n].k = k
DictIndex(d, k) == CHOOSE n \in 1..Len(d) : d[n].k = k
DictGet(d, k) == d[DictIndex(d, k)].v
\* d[k] = v: a new key is appended, an existing key keeps its position.
DictPut(d, k, v) ==
    IF DictHas(d, k) THEN [d EXCEPT ![DictIndex(d, k)].v = v]
    ELSE Append(d, [k |-> k, v |-> v])
DictKeys(d) == {d[n].k : n \in 1..Len(d)}

(***************************************************************************)
(* modelos.py                                                              *)
(***************************************************************************)

\* An Enlace object: id is the object's identity, the rest its fields.
Enlace(id, source, target, capacity) ==
    [id |-> id, source |-> source, target |-> target, capacity |-> capacity]

\* Enlace compared as the object it is: a variant of __eq__ / __hash__ that
\* tells two objects with the same fields apart.
EnlaceKeyPorIdentidad(e) == <<e.source, e.target, e.capacity, e.id>>

\* Enlace.__eq__ / __hash__: the key under which dicts and sets hold a link.
EnlaceKey(e) == <<e.source, e.target, e.capacity>>

\* Path(commodity, enlaces): trafico defaults to 0.0.
Path(enlaces) == [enlaces |-> enlaces, trafico |-> FZero]

\* Commodity(source, target, requirement) followed by add_path for each path.
Commodity(source, target, requirement, paths) ==
    [source |-> source, target |-> target, requirement |-> requirement,
     paths |-> paths]

\* Commodity.__eq__ / __hash__.
CommodityKey(c) == <<c.source, c.target, c.requirement>>

(***************************************************************************)
(* funciones.py: cost model                                                *)
(***************************************************************************)

\* p = 0.99 and the step size 0.001.
P99 == FLit(99, -2)
Eta == FLit(1, -3)

\* A variant whose saturated branch does not square 1 - p.
f_prima_sin_cuadrado(capacity, total_flow) ==
    IF FGt(total_flow, FMul(P99, capacity))
    THEN FDiv(FInt(1), FMul(capacity, FSub(FInt(1), P99)))
    ELSE LET d == FSub(capacity, total_flow)
         IN  FDiv(capacity, FMul(d, d))

f_prima(capacity, total_flow) ==
    IF FGt(total_flow, FMul(P99, capacity))
    THEN LET q == FSub(FInt(1), P99)
         IN  FDiv(FInt(1), FMul(capacity, FMul(q, q)))
    ELSE LET d == FSub(capacity, total_flow)
         IN  FDiv(capacity, FMul(d, d))

f_double_prima(enlace, flujo_total) ==
    IF FGt(flujo_total, FMul(P99, enlace.capacity))
    THEN FZero
    ELSE LET d == FSub(enlace.capacity, flujo_total)
         IN  FDiv(FMul(FInt(2), enlace.capacity), FMul(FMul(d, d), d))

\* A variant that divides the requirement among one path more than there are.
distribuir_trafico_entre_uno_mas(commodity) ==
    LET trafico_unitario ==
            FDiv(commodity.requirement, FInt(Len(commodity.paths) + 1))
    IN  [commodity EXCEPT !.paths =
            [j \in 1..Len(commodity.paths) |->
                [commodity.paths[j] EXCEPT !.trafico = trafico_unitario]]]

distribuir_trafico_uniforme(commodity) ==
    LET trafico_unitario == FDiv(commodity.requirement, FInt(Len(commodity.paths)))
    IN  [commodity EXCEPT !.paths =
            [j \in 1..Len(commodity.paths) |->
                [commodity.paths[j] EXCEPT !.trafico = trafico_unitario]]]

\* The (link, traffic) additions of calcular_flujo_por_enlace's three nested
\* loops, in the order the loops make them.
RECURSIVE AportesPath(_, _)
AportesPath(path, n) ==
    IF n > Len(path.enlaces) THEN <<>>
    ELSE <<[k |-> EnlaceKey(path.enlaces[n]), v |-> path.trafico]>>
         \o AportesPath(path, n + 1)

RECURSIVE AportesCommodity(_, _)
AportesCommodity(commodity, j) ==
    IF j > Len(commodity.paths) THEN <<>>
    ELSE AportesPath(commodity.paths[j], 1) \o AportesCommodity(commodity, j + 1)

RECURSIVE Aportes(_, _)
Aportes(cs, c) ==
    IF c > Len(cs) THEN <<>>
    ELSE AportesCommodity(cs[c], 1) \o Aportes(cs, c + 1)

\* flujo_por_enlace[enlace] += path.trafico on a defaultdict(float).
RECURSIVE Acumular(_, _, _)
Acumular(d, aportes, n) ==
    IF n > Len(aportes) THEN d
    ELSE LET a == aportes[n]
             previo == IF DictHas(d, a.k) THEN DictGet(d, a.k) ELSE FZero
         IN  Acumular(DictPut(d, a.k, FAdd(previo, a.v)), aportes, n + 1)

calcular_flujo_por_enlace(cs) == Acumular(<<>>, Aportes(cs, 1), 1)

RECURSIVE CostePath(_, _, _, _)
CostePath(path, flujo_por_enlace, n, coste_path) ==
    IF n > Len(path.enlaces) THEN coste_path
    ELSE LET enlace == path.enlaces[n]
             flujo == DictGet(flujo_por_enlace, EnlaceKey(enlace))
         IN  CostePath(path, flujo_por_enlace, n + 1,
                       FAdd(coste_path, f_prima(enlace.capacity, flujo)))

\* The (commodity, i) of every path, in the order of the two loops.
RECURSIVE Ordinales(_, _, _)
Ordinales(cs, c, j) ==
    IF c > Len(cs) THEN <<>>
    ELSE IF j > Len(cs[c].paths) THEN Ordinales(cs, c + 1, 1)
    ELSE <<<<c, j>>>> \o Ordinales(cs, c, j + 1)

RECURSIVE CostesDesde(_, _, _, _, _)
CostesDesde(cs, flujo_por_enlace, ords, n, costes_path) ==
    IF n > Len(ords) THEN costes_path
    ELSE LET commodity == cs[ords[n][1]]
             idx == ords[n][2]
             coste_path == CostePath(commodity.paths[idx], flujo_por_enlace, 1, FZero)
         IN  CostesDesde(cs, flujo_por_enlace, ords, n + 1,
                 DictPut(costes_path, <<CommodityKey(commodity), idx>>, coste_path))

calcular_coste_total_por_path(cs, flujo_por_enlace) ==
    CostesDesde(cs, flujo_por_enlace, Ordinales(cs, 1, 1), 1, <<>>)

\* {path_id: coste for (comm, path_id), coste in costes.items() if comm == commodity}
RECURSIVE CostesDe(_, _, _)
CostesDe(commodity, costes, n) ==
    IF n > Len(costes) THEN <<>>
    ELSE (IF costes[n].k[1] = CommodityKey(commodity)
          THEN <<[k |-> costes[n].k[2], v |-> costes[n].v]>>
          ELSE <<>>)
         \o CostesDe(commodity, costes, n + 1)

\* A variant that keeps the last key of least value.
RECURSIVE MinKeyUltimo(_, _, _)
MinKeyUltimo(d, n, best) ==
    IF n > Len(d) THEN d[best].k
    ELSE MinKeyUltimo(d, n + 1, IF FLe(d[n].v, d[best].v) THEN n ELSE best)

\* min(d, key=d.get) on a non-empty dict: the first key of least value.
RECURSIVE MinKey(_, _, _)
MinKey(d, n, best) ==
    IF n > Len(d) THEN d[best].k
    ELSE MinKey(d, n + 1, IF FLt(d[n].v, d[best].v) THEN n ELSE best)

RECURSIVE SeleccionDesde(_, _, _, _)
SeleccionDesde(cs, costes, c, shortest_paths) ==
    IF c > Len(cs) THEN shortest_paths
    ELSE LET paths_costes == CostesDe(cs[c], costes, 1)
         IN  SeleccionDesde(cs, costes, c + 1,
                 IF paths_costes # <<>>
                 THEN DictPut(shortest_paths, CommodityKey(cs[c]),
                              MinKey(paths_costes, 1, 1))
                 ELSE shortest_paths)

seleccionar_path_minimo_coste(cs, costes_path_anterior) ==
    SeleccionDesde(cs, costes_path_anterior, 1, <<>>)

\* A variant that takes the whole cost of the path for the cost differential.
calculo_del_trafico_sin_referencia(x_kp_actual, H_kp, d_kp, d_kbeta) ==
    FMax0(FSub(x_kp_actual, FMul(FDiv(Eta, H_kp), d_kp)))

\* A variant that adds the adaptation term instead of subtracting it.
calculo_del_trafico_con_suma(x_kp_actual, H_kp, d_kp, d_kbeta) ==
    FMax0(FAdd(x_kp_actual, FMul(FDiv(Eta, H_kp), FSub(d_kp, d_kbeta))))

\* Defined for H_kp # 0; the caller raises ZeroDivisionError otherwise.
calculo_del_trafico_para_la_siguiente_iteracion(x_kp_actual, H_kp, d_kp, d_kbeta) ==
    LET termino_adaptacion ==
            FSub(x_kp_actual, FMul(FDiv(Eta, H_kp), FSub(d_kp, d_kbeta)))
    IN  FMax0(termino_adaptacion)

\* set(path.enlaces): the links of a path by value.
EnlacesSet(path) == {EnlaceKey(path.enlaces[n]) : n \in 1..Len(path.enlaces)}

\* The distinct link values of a sequence of paths, in order of first occurrence.
RECURSIVE ClavesEnOrden(_, _, _)
ClavesEnOrden(enlaces, n, acc) ==
    IF n > Len(enlaces) THEN acc
    ELSE LET k == EnlaceKey(enlaces[n])
         IN  ClavesEnOrden(enlaces, n + 1,
                 IF \E m \in 1..Len(acc) : acc[m] = k THEN acc ELSE Append(acc, k))

RECURSIVE SumaCurvatura(_, _, _, _, _)
SumaCurvatura(claves, L_kp, flujo_ant, n, H_kp) ==
    IF n > Len(claves) THEN H_kp
    ELSE IF claves[n] \notin L_kp
    THEN SumaCurvatura(claves, L_kp, flujo_ant, n + 1, H_kp)
    ELSE LET flujo == IF DictHas(flujo_ant, claves[n])
                      THEN DictGet(flujo_ant, claves[n]) ELSE FZero
             f_dp == f_double_prima([capacity |-> claves[n][3]], flujo)
         IN  SumaCurvatura(claves, L_kp, flujo_ant, n + 1, FAdd(H_kp, f_dp))

\* The sum runs over a Python set, whose order is that of the links' hashes;
\* here the links of path_actual come first, then those of mejor_path. The
\* order only decides how the sum is rounded.
calcular_H_kp(path_actual, mejor_path, flujo_por_enlace_anterior) ==
    LET enlaces_actual == EnlacesSet(path_actual)
        enlaces_mejor == EnlacesSet(mejor_path)
        L_kp == (enlaces_actual \ enlaces_mejor) \cup (enlaces_mejor \ enlaces_actual)
        claves == ClavesEnOrden(path_actual.enlaces \o mejor_path.enlaces, 1, <<>>)
    IN  SumaCurvatura(claves, L_kp, flujo_por_enlace_anterior, 1, FZero)

(***************************************************************************)
(* fat_tree_topology.py / ring_topology.py: path discovery                 *)
(***************************************************************************)

\* grafo[nodo] of construir_grafo_adyacencia: the links leaving nodo, in the
\* order of the list (the neighbour of each is its target). A node that is
\* no key of grafo has none.
Grafo(enlaces, nodo) == SelectSeq(enlaces, LAMBDA e : e.source = nodo)

\* The loop `for vecino, _ in grafo[nodo]` of the breadth-first search from
\* the n-th neighbour on; st holds queue and distancias.
RECURSIVE BfsVecinos(_, _, _, _)
BfsVecinos(adj, n, dist, st) ==
    IF n > Len(adj) THEN st
    ELSE IF adj[n].target \in DOMAIN st.distancias
    THEN BfsVecinos(adj, n + 1, dist, st)
    ELSE BfsVecinos(adj, n + 1, dist,
             [queue |-> Append(st.queue, <<adj[n].target, dist + 1>>),
              distancias |-> st.distancias @@ (adj[n].target :> dist + 1)])

\* `while queue`: the distances found when the queue is empty.
RECURSIVE BfsDistancias(_, _, _)
BfsDistancias(enlaces, target, st) ==
    IF st.queue = <<>> THEN st.distancias
    ELSE IF Head(st.queue)[1] = target
    THEN BfsDistancias(enlaces, target, [st EXCEPT !.queue = Tail(@)])
    ELSE BfsDistancias(enlaces, target,
             BfsVecinos(Grafo(enlaces, Head(st.queue)[1]), 1, Head(st.queue)[2],
                        [st EXCEPT !.queue = Tail(@)]))

\* distancias after the search from source.
Distancias(source, target, enlaces) ==
    BfsDistancias(enlaces, target,
                  [queue |-> <<<<source, 0>>>>, distancias |-> (source :> 0)])

\* [e.source for e in camino_actual]
Sources(camino) == {camino[n].source : n \in 1..Len(camino)}

\* dfs of encontrar_k_paths_mas_cortos: todos_caminos after the call.
RECURSIVE DfsMasCortos(_, _, _, _, _, _, _)
RECURSIVE DfsMasCortosVecinos(_, _, _, _, _, _, _, _)

\* A variant that records a path found without its first link.
DfsMasCortosSinPrimero(enlaces, target, max_length_to_explore, nodo_actual, camino_actual, longitud, todos_caminos) ==
    IF longitud > max_length_to_explore THEN todos_caminos
    ELSE IF nodo_actual = target
    THEN Append(todos_caminos,
                IF camino_actual = <<>> THEN <<>> ELSE Tail(camino_actual))
    ELSE DfsMasCortosVecinos(enlaces, target, max_length_to_explore,
                             Grafo(enlaces, nodo_actual), 1, camino_actual,
                             longitud, todos_caminos)

DfsMasCortos(enlaces, target, max_length_to_explore, nodo_actual, camino_actual, longitud, todos_caminos) ==
    IF longitud > max_length_to_explore THEN todos_caminos
    ELSE IF nodo_actual = target THEN Append(todos_caminos, camino_actual)
    ELSE DfsMasCortosVecinos(enlaces, target, max_length_to_explore,
                             Grafo(enlaces, nodo_actual), 1, camino_actual,
                             longitud, todos_caminos)

\* `for vecino, enlace in grafo[nodo_actual]` from the n-th neighbour on.
DfsMasCortosVecinos(enlaces, target, max_length_to_explore, adj, n, camino_actual, longitud, todos_caminos) ==
    IF n > Len(adj) THEN todos_caminos
    ELSE IF adj[n].target \in Sources(camino_actual)
    THEN DfsMasCortosVecinos(enlaces, target, max_length_to_explore, adj, n + 1,
                             camino_actual, longitud, todos_caminos)
    ELSE DfsMasCortosVecinos(enlaces, target, max_length_to_explore, adj, n + 1,
             camino_actual, longitud,
             DfsMasCortos(enlaces, target, max_length_to_explore, adj[n].target,
                          Append(camino_actual, adj[n]), longitud + 1, todos_caminos))

\* dfs of encontrar_k_paths_bfs: todos_caminos after the call. Having
\* appended a path the code tests len(todos_caminos) >= k * 3 and returns;
\* it returns on the next line as well, so the test changes nothing.
RECURSIVE DfsBfs(_, _, _, _, _, _, _, _)
RECURSIVE DfsBfsVecinos(_, _, _, _, _, _, _, _, _)

DfsBfs(enlaces, target, k, max_length, nodo_actual, camino_actual, visitados, todos_caminos) ==
    IF Len(camino_actual) > max_length THEN todos_caminos
    ELSE IF nodo_actual = target
    THEN IF Len(todos_caminos) + 1 >= k * 3
         THEN Append(todos_caminos, camino_actual)
         ELSE Append(todos_caminos, camino_actual)
    ELSE DfsBfsVecinos(enlaces, target, k, max_length, Grafo(enlaces, nodo_actual), 1,
                       camino_actual, visitados, todos_caminos)

DfsBfsVecinos(enlaces, target, k, max_length, adj, n, camino_actual, visitados, todos_caminos) ==
    IF n > Len(adj) THEN todos_caminos
    ELSE IF adj[n].target \in visitados
    THEN DfsBfsVecinos(enlaces, target, k, max_length, adj, n + 1, camino_actual,
                       visitados, todos_caminos)
    ELSE DfsBfsVecinos(enlaces, target, k, max_length, adj, n + 1, camino_actual,
             visitados,
             DfsBfs(enlaces, target, k, max_length, adj[n].target,
                    Append(camino_actual, adj[n]), visitados \cup {adj[n].target},
                    todos_caminos))

\* A variant of Insertar that puts camino before the paths of its length.
RECURSIVE InsertarAntes(_, _)
InsertarAntes(ordenados, camino) ==
    IF ordenados = <<>> THEN <<camino>>
    ELSE IF Len(camino) <= Len(Head(ordenados))
    THEN <<camino>> \o ordenados
    ELSE <<Head(ordenados)>> \o InsertarAntes(Tail(ordenados), camino)

\* list.sort(key=len): a stable sort. Insertar puts camino after every path
\* that is not longer.
RECURSIVE Insertar(_, _)
Insertar(ordenados, camino) ==
    IF ordenados = <<>> THEN <<camino>>
    ELSE IF Len(camino) < Len(Head(ordenados))
    THEN <<camino>> \o ordenados
    ELSE <<Head(ordenados)>> \o Insertar(Tail(ordenados), camino)

RECURSIVE SortKeyLen(_, _, _)
SortKeyLen(caminos, n, ordenados) ==
    IF n > Len(caminos) THEN ordenados
    ELSE SortKeyLen(caminos, n + 1, Insertar(ordenados, caminos[n]))

\* todos_caminos[:k] for k >= 0.
Primeros(caminos, k) ==
    SubSeq(caminos, 1, IF k < Len(caminos) THEN k ELSE Len(caminos))

\* What encontrar_k_paths_mas_cortos leaves in todos_caminos before the sort
\* (nothing when it returns early).
TodosMasCortos(source, target, enlaces, distancias) ==
    IF source = target \/ target \notin DOMAIN distancias THEN <<>>
    ELSE DfsMasCortos(enlaces, target, distancias[target] + 2, source, <<>>, 0, <<>>)

encontrar_k_paths_mas_cortos(source, target, enlaces, k) ==
    IF source = target THEN << <<>> >>
    ELSE Primeros(
             SortKeyLen(TodosMasCortos(source, target, enlaces,
                                       Distancias(source, target, enlaces)),
                        1, <<>>),
             k)

\* A variant whose default limit is below the minimum distance.
LimiteBfsCorto(max_length, dist_min) ==
    IF max_length = <<>> THEN dist_min - 1 ELSE max_length[1]

\* max_length is <<>> for None and <<n>> for the length n.
LimiteBfs(max_length, dist_min) ==
    IF max_length = <<>> THEN dist_min + 3 ELSE max_length[1]

TodosBfs(source, target, enlaces, k, max_length, distancias) ==
    IF source = target \/ target \notin DOMAIN distancias THEN <<>>
    ELSE DfsBfs(enlaces, target, k, LimiteBfs(max_length, distancias[target]),
                source, <<>>, {source}, <<>>)

\* A variant without the early return for source == target.
encontrar_k_paths_bfs_sin_caso_trivial(source, target, enlaces, k, max_length) ==
    Primeros(
        SortKeyLen(TodosBfs(source, target, enlaces, k, max_length,
                            Distancias(source, target, enlaces)),
                   1, <<>>),
        k)

encontrar_k_paths_bfs(source, target, enlaces, k, max_length) ==
    IF source = target THEN << <<>> >>
    ELSE Primeros(
             SortKeyLen(TodosBfs(source, target, enlaces, k, max_length,
                                 Distancias(source, target, enlaces)),
                        1, <<>>),
             k)

\* generar_anillo_simple: the links of a ring, numbered as they are appended.
RECURSIVE AnilloDesde(_, _, _, _, _, _)
AnilloDesde(num_nodes, node_offset, capacity, bidirectional, n, enlaces) ==
    IF n >= num_nodes THEN enlaces
    ELSE LET source == node_offset + n
             target == node_offset + ((n + 1) % num_nodes)
             clockwise == Append(enlaces,
                                 Enlace(Len(enlaces) + 1, source, target, capacity))
         IN  AnilloDesde(num_nodes, node_offset, capacity, bidirectional, n + 1,
                 IF bidirectional
                 THEN Append(clockwise,
                             Enlace(Len(clockwise) + 1, target, source, capacity))
                 ELSE clockwise)

\* ring_id, the first parameter of the function, is not used by it.
generar_anillo_simple(num_nodes, node_offset, capacity, bidirectional) ==
    AnilloDesde(num_nodes, node_offset, capacity, bidirectional, 0, <<>>)

(***************************************************************************)
(* funciones.py: funcion_principal                                         *)
(***************************************************************************)

\* range(200)
T == 200

\* A variant that gives the reference path the whole requirement.
flujo_shortest_path_sin_resta(commodity, suma_flujo_otros) ==
    commodity.requirement

\* What the reference path receives: the requirement less the others' traffic.
flujo_shortest_path(commodity, suma_flujo_otros) ==
    FSub(commodity.requirement, suma_flujo_otros)

\* The loop `for path_id, coste_actual in costes_commodity.items()` of one
\* commodity from its n-th entry on: the commodity as the loop leaves it,
\* suma_flujo_otros, and the exception that ended it ("" when none did).
RECURSIVE ActualizarOtros(_, _, _, _, _, _)

\* Lines 167-168: the new traffic is stored and added to suma_flujo_otros.
AsignarTrafico(commodity, costes_commodity, path_minimo_id, flujo_ant, n, suma, nuevo_trafico) ==
    ActualizarOtros(
        [commodity EXCEPT !.paths[costes_commodity[n].k].trafico = nuevo_trafico],
        costes_commodity, path_minimo_id, flujo_ant, n + 1, FAdd(suma, nuevo_trafico))

\* Lines 159-165: 0.001 / H_kp raises ZeroDivisionError when H_kp is 0.0.
ActualizarPath(commodity, costes_commodity, path_minimo_id, flujo_ant, n, suma, H_kp) ==
    IF H_kp = FZero
    THEN [commodity |-> commodity, suma |-> suma, error |-> "ZeroDivisionError"]
    ELSE AsignarTrafico(commodity, costes_commodity, path_minimo_id, flujo_ant, n, suma,
             calculo_del_trafico_para_la_siguiente_iteracion(
                 commodity.paths[costes_commodity[n].k].trafico, H_kp,
                 costes_commodity[n].v, DictGet(costes_commodity, path_minimo_id)))

ActualizarOtros(commodity, costes_commodity, path_minimo_id, flujo_ant, n, suma) ==
    IF n > Len(costes_commodity)
    THEN [commodity |-> commodity, suma |-> suma, error |-> ""]
    ELSE LET path_id == costes_commodity[n].k
         IN  IF path_id = path_minimo_id
             THEN ActualizarOtros(commodity, costes_commodity, path_minimo_id,
                                  flujo_ant, n + 1, suma)
             ELSE IF path_id > Len(commodity.paths)
                     \/ path_minimo_id > Len(commodity.paths)
             THEN [commodity |-> commodity, suma |-> suma, error |-> "IndexError"]
             ELSE ActualizarPath(commodity, costes_commodity, path_minimo_id,
                                 flujo_ant, n, suma,
                                 calcular_H_kp(commodity.paths[path_id],
                                               commodity.paths[path_minimo_id],
                                               flujo_ant))

\* Lines 170-171, after the loop over the other paths ended as `otros`.
AsignarShortest(otros, path_minimo_id) ==
    IF otros.error # ""
    THEN [commodity |-> otros.commodity, error |-> otros.error]
    ELSE IF path_minimo_id > Len(otros.commodity.paths)
    THEN [commodity |-> otros.commodity, error |-> "IndexError"]
    ELSE [commodity |->
             [otros.commodity EXCEPT !.paths[path_minimo_id].trafico =
                 FMax0(flujo_shortest_path(otros.commodity, otros.suma))],
          error |-> ""]

\* Lines 134-171 for the costs of one commodity, which are not empty.
ActualizarDesdeMinimo(commodity, costes_commodity, path_minimo_id, flujo_ant) ==
    AsignarShortest(
        ActualizarOtros(commodity, costes_commodity, path_minimo_id, flujo_ant, 1, FZero),
        path_minimo_id)

\* The body of `for commodity in commodities` at an iteration i > 0.
ActualizarCommodity(commodity, costes_ant, flujo_ant) ==
    LET costes_commodity == CostesDe(commodity, costes_ant, 1)
    IN  IF costes_commodity = <<>> THEN [commodity |-> commodity, error |-> ""]
        ELSE ActualizarDesdeMinimo(commodity, costes_commodity,
                                   MinKey(costes_commodity, 1, 1), flujo_ant)

\* `for commodity in commodities` at i > 0 from the c-th commodity on; an
\* exception leaves the later commodities as they were.
RECURSIVE ActualizarDesde(_, _, _, _)

\* The c-th commodity was updated with result r.
Seguir(cs, costes_ant, flujo_ant, c, r) ==
    IF r.error # ""
    THEN [commodities |-> [cs EXCEPT ![c] = r.commodity], error |-> r.error]
    ELSE ActualizarDesde([cs EXCEPT ![c] = r.commodity], costes_ant, flujo_ant, c + 1)

ActualizarDesde(cs, costes_ant, flujo_ant, c) ==
    IF c > Len(cs) THEN [commodities |-> cs, error |-> ""]
    ELSE Seguir(cs, costes_ant, flujo_ant, c,
                ActualizarCommodity(cs[c], costes_ant, flujo_ant))

\* `for commodity in commodities: distribuir_trafico_uniforme(commodity)`
\* from the c-th commodity on; a commodity without paths raises ValueError.
RECURSIVE DistribuirDesde(_, _)
DistribuirDesde(cs, c) ==
    IF c > Len(cs) THEN [commodities |-> cs, error |-> ""]
    ELSE IF Len(cs[c].paths) = 0 THEN [commodities |-> cs, error |-> "ValueError"]
    ELSE DistribuirDesde([cs EXCEPT ![c] = distribuir_trafico_uniforme(cs[c])], c + 1)

VARIABLES
    commodities,   \* the list given to funcion_principal (paths carry trafico)
    iteraciones,   \* the ledger: flujo_total, costes_path, shortest_paths
    i,             \* the loop variable of `for i in range(200)`
    pc,            \* "loop", "returned", or the exception that ended the call
    enlaces,       \* the list of links path discovery is given
    entrada,       \* the arguments of a path discovery call
    llamada,       \* the discovery function that was called ("" before the call)
    todos_caminos, \* its candidate paths, as found, before the sort
    resultado,     \* the list it returned
    medida         \* a capacity, two flows, and a cost function's value at each

vars == <<commodities, iteraciones, i, pc, enlaces, entrada, llamada, todos_caminos,
          resultado, medida>>
costVars == <<medida>>
engineVars == <<commodities, iteraciones, i, pc>>
pathVars == <<enlaces, entrada, llamada, todos_caminos, resultado>>

\* A variant in which every entry of flujo_total is the one dict, updated by
\* each iteration.
AnotarSobreUnSoloDict(cs, flujo_total, costes_path) ==
    [flujo_total |-> [t \in 1..(Len(iteraciones.flujo_total) + 1) |-> flujo_total],
     costes_path |-> Append(iteraciones.costes_path, costes_path),
     shortest_paths |-> Append(iteraciones.shortest_paths,
                               seleccionar_path_minimo_coste(cs, costes_path))]

\* A variant that records the selection made from the costs of the iteration
\* before, the reference the traffic of this iteration was computed with.
AnotarReferenciaUsada(cs, flujo_total, costes_path) ==
    [flujo_total |-> Append(iteraciones.flujo_total, flujo_total),
     costes_path |-> Append(iteraciones.costes_path, costes_path),
     shortest_paths |->
         Append(iteraciones.shortest_paths,
                seleccionar_path_minimo_coste(
                    cs, IF iteraciones.costes_path = <<>> THEN costes_path
                        ELSE iteraciones.costes_path[Len(iteraciones.costes_path)]))]

\* Lines 179-183: the selection from the iteration's costs, and the appends.
Anotar(cs, flujo_total, costes_path) ==
    [flujo_total |-> Append(iteraciones.flujo_total, flujo_total),
     costes_path |-> Append(iteraciones.costes_path, costes_path),
     shortest_paths |-> Append(iteraciones.shortest_paths,
                               seleccionar_path_minimo_coste(cs, costes_path))]

\* Line 178.
RegistrarCostes(cs, flujo_total) ==
    Anotar(cs, flujo_total, calcular_coste_total_por_path(cs, flujo_total))

\* Lines 177-183: the snapshot of the iteration, appended to the ledger.
Registrar(cs) == RegistrarCostes(cs, calcular_flujo_por_enlace(cs))

\* The rest of a pass of the loop body once the traffic was assigned with
\* result r: an exception ends the call, otherwise the snapshot is appended.
Avanzar(r) ==
    /\ commodities' = r.commodities
    /\ IF r.error # ""
       THEN /\ pc' = r.error
            /\ UNCHANGED <<iteraciones, i>>
       ELSE /\ iteraciones' = Registrar(r.commodities)
            /\ i' = i + 1
            /\ pc' = pc
    /\ UNCHANGED <<pathVars, costVars>>

\* One pass of the loop body with i = 0.
Inicializar ==
    /\ pc = "loop"
    /\ i = 0
    /\ Avanzar(DistribuirDesde(commodities, 1))

\* One pass of the loop body with i > 0.
Iterar ==
    /\ pc = "loop"
    /\ i > 0
    /\ i < T
    /\ Avanzar(ActualizarDesde(commodities, iteraciones.costes_path[i],
                               iteraciones.flujo_total[i], 1))

\* range(200) is exhausted: return iteraciones.
Retornar ==
    /\ pc = "loop"
    /\ i = T
    /\ pc' = "returned"
    /\ UNCHANGED <<commodities, iteraciones, i>>
    /\ UNCHANGED <<pathVars, costVars>>

\* The nodes, the longest list of links, the largest k and the largest
\* max_length given to path discovery.
NumNodes == 3
MaxLinks == 2
MaxK == 2
MaxLength == 2

\* The arguments a path discovery call may be given: source and target are
\* nodes of the network or ends of its links.
Nodes == 1..NumNodes
Ks == 0..MaxK
MaxLengths == {<<>>} \cup {<<n>> : n \in 0..MaxLength}
Extremos(lista) ==
    Nodes \cup {lista[n].source : n \in 1..Len(lista)}
          \cup {lista[n].target : n \in 1..Len(lista)}

\* A call of encontrar_k_paths_mas_cortos(source, target, enlaces, k).
LlamarMasCortos ==
    /\ llamada = ""
    /\ \E source \in Extremos(enlaces), target \in Extremos(enlaces), k \in Ks :
          /\ entrada' = [source |-> source, target |-> target, k |-> k,
                         max_length |-> <<>>]
          /\ todos_caminos' = TodosMasCortos(source, target, enlaces,
                                             Distancias(source, target, enlaces))
          /\ resultado' = encontrar_k_paths_mas_cortos(source, target, enlaces, k)
    /\ llamada' = "mas_cortos"
    /\ UNCHANGED <<enlaces, engineVars, costVars>>

\* A call of encontrar_k_paths_bfs(source, target, enlaces, k, max_length).
LlamarBfs ==
    /\ llamada = ""
    /\ \E source \in Extremos(enlaces), target \in Extremos(enlaces), k \in Ks,
          max_length \in MaxLengths :
          /\ entrada' = [source |-> source, target |-> target, k |-> k,
                         max_length |-> max_length]
          /\ todos_caminos' = TodosBfs(source, target, enlaces, k, max_length,
                                       Distancias(source, target, enlaces))
          /\ resultado' = encontrar_k_paths_bfs(source, target, enlaces, k, max_length)
    /\ llamada' = "bfs"
    /\ UNCHANGED <<enlaces, engineVars, costVars>>

(***************************************************************************)
(* Inputs                                                                  *)
(***************************************************************************)

\* simulador.py: the links of the reference network; e1b is a second Enlace
\* object with the fields of e1.
e1 == Enlace(1, 1, 2, FInt(5))
e2 == Enlace(2, 1, 4, FInt(3))
e3 == Enlace(3, 1, 3, FInt(4))
e4 == Enlace(4, 2, 4, FInt(3))
e5 == Enlace(5, 3, 4, FInt(1))
e1b == Enlace(6, 1, 2, FInt(5))

e5c == Enlace(7, 3, 4, FInt(2))

\* The two commodities of simulador.py.
k1 == Commodity(1, 4, FInt(4), <<Path(<<e1, e4>>), Path(<<e2>>), Path(<<e3, e5>>)>>)
k2 == Commodity(2, 4, FInt(3), <<Path(<<e4>>), Path(<<e1, e2>>), Path(<<e1, e3, e5>>)>>)
\* A commodity with a single path, over a link object of its own.
k3 == Commodity(1, 4, FInt(2), <<Path(<<e1b, e4>>)>>)
\* A commodity to which no path was added.
k4 == Commodity(1, 4, FInt(4), <<>>)
\* Two paths with the same links by value.
k5 == Commodity(1, 2, FInt(3), <<Path(<<e1>>), Path(<<e1b>>)>>)
\* Two paths whose links are both loaded beyond 0.99 of their capacity.
k6 == Commodity(3, 4, FInt(4), <<Path(<<e5>>), Path(<<e5c>>)>>)

\* A commodity with the source, target and requirement of k1 and one path.
k7 == Commodity(1, 4, FInt(4), <<Path(<<e2>>)>>)

Candidatos == {k1, k2, k3, k4, k5, k6, k7}

\* Two routes from 1 to 4 over links of one capacity.
s12 == Enlace(8, 1, 2, FInt(3))
s13 == Enlace(9, 1, 3, FInt(3))
s34 == Enlace(10, 3, 4, FInt(3))
\* A commodity with two paths of equal capacity and equal cost.
k8 == Commodity(1, 4, FInt(2), <<Path(<<s12, e4>>), Path(<<s13, s34>>)>>)

\* A commodity whose first two paths have the same cost, less than the third's.
s14 == Enlace(11, 1, 4, FInt(1))
k9 == Commodity(1, 4, FInt(2),
                <<Path(<<s12, e4>>), Path(<<s13, s34>>), Path(<<s14>>)>>)

\* The list of links of simulador.py.
EnlacesA == <<e1, e2, e3, e4, e5>>

\* A commodity from a node to itself, with the path discovery finds for it.
k10 == Commodity(2, 2, FInt(3), <<Path(encontrar_k_paths_bfs(2, 2, EnlacesA, 1, <<>>)[1])>>)

\* Further lists of commodities given to funcion_principal.
Escenarios == {<<k8>>, <<k9>>, <<k10>>, <<k1, k10>>}

ScenarioA == <<k1, k2>>

\* The longest list of commodities given to funcion_principal.
MaxCommodities == 2

Inputs ==
    UNION {[1..n -> Candidatos] : n \in 1..MaxCommodities} \cup Escenarios

\* Every list of up to MaxLinks links between the nodes (self-loops and
\* repeated links included), each link an object of its own, of capacity 1.
ListaDeEnlaces(pares) ==
    [n \in 1..Len(pares) |-> Enlace(n, pares[n][1], pares[n][2], FInt(1))]

Listas ==
    {ListaDeEnlaces(pares) : pares \in UNION {[1..n -> Nodes \X Nodes] : n \in 0..MaxLinks}}

\* Four links from node 1 to node 2, each an object of its own.
Paralelos == ListaDeEnlaces(<<<<1, 2>>, <<1, 2>>, <<1, 2>>, <<1, 2>>>>)

\* The capacities generar_anillo_simple is called with.
Capacidades == {FInt(1), FZero, FNeg(FInt(1))}

\* The rings generar_anillo_simple makes of the nodes.
Anillos ==
    {generar_anillo_simple(n, 1, c, b) : n \in 2..NumNodes, c \in Capacidades, b \in BOOLEAN}

EngineIdle ==
    /\ commodities = <<>>
    /\ iteraciones = [flujo_total |-> <<>>, costes_path |-> <<>>, shortest_paths |-> <<>>]
    /\ i = 0
    /\ pc = "idle"

PathsIdle ==
    /\ enlaces = <<>>
    /\ entrada = [source |-> 1, target |-> 1, k |-> 0, max_length |-> <<>>]
    /\ llamada = ""
    /\ todos_caminos = <<>>
    /\ resultado = <<>>

\* The size of the grid of flows: they are taken at every 1 / Pasos of the
\* capacity.
Pasos == 4

\* The capacities the cost functions are evaluated for.
CapacidadesCoste ==
    {FInt(1), FInt(3), FInt(5), FInt(100), FLit(5, -1), FLit(123406, -5)}

\* The floats next to x > 0.
Siguiente(x) == Norm(x.m + 1, x.e)
Anterior(x) == IF x.m = MantLo THEN [m |-> MantHi - 1, e |-> x.e - 1]
               ELSE [m |-> x.m - 1, e |-> x.e]

\* The flows the cost functions are evaluated at for a capacity: the grid up
\* to beyond the capacity, a flow far smaller than the capacity, twice the
\* capacity, and the threshold p * capacity with the floats next to it.
Flujos(capacity) ==
    {FDiv(FMul(FInt(n), capacity), FInt(Pasos)) : n \in 0..(Pasos + 1)}
        \cup {FMul(FLit(1, -9), capacity), FMul(FInt(2), capacity),
              FMul(P99, capacity), Siguiente(FMul(P99, capacity)),
              Anterior(FMul(P99, capacity))}

CostIdle ==
    medida = [capacity |-> FInt(1), flujo_a |-> FZero, flujo_b |-> FZero,
              funcion |-> "", valor_a |-> FZero, valor_b |-> FZero]

\* f_prima(capacity, total_flow) is evaluated at the two flows.
EvaluarFPrima ==
    /\ medida.funcion = ""
    /\ medida' = [medida EXCEPT !.funcion = "f_prima",
                                 !.valor_a = f_prima(medida.capacity, medida.flujo_a),
                                 !.valor_b = f_prima(medida.capacity, medida.flujo_b)]
    /\ UNCHANGED <<engineVars, pathVars>>

\* f_double_prima(enlace, flujo_total) is evaluated at the two flows.
EvaluarFDoublePrima ==
    /\ medida.funcion = ""
    /\ medida' = [medida EXCEPT
                     !.funcion = "f_double_prima",
                     !.valor_a = f_double_prima(Enlace(1, 1, 2, medida.capacity),
                                                medida.flujo_a),
                     !.valor_b = f_double_prima(Enlace(1, 1, 2, medida.capacity),
                                                medida.flujo_b)]
    /\ UNCHANGED <<engineVars, pathVars>>

\* funcion_principal is called with a list of commodities.
Init ==
    /\ commodities \in Inputs
    /\ iteraciones = [flujo_total |-> <<>>, costes_path |-> <<>>, shortest_paths |-> <<>>]
    /\ i = 0
    /\ pc = "loop"
    /\ PathsIdle
    /\ CostIdle

Next == Inicializar \/ Iterar \/ Retornar

Spec == Init /\ [][Next]_vars

\* A path discovery function is called with its arguments.
InitPaths ==
    /\ enlaces \in Listas \cup Anillos \cup {EnlacesA, Paralelos}
    /\ entrada = [source |-> 1, target |-> 1, k |-> 0, max_length |-> <<>>]
    /\ llamada = ""
    /\ todos_caminos = <<>>
    /\ resultado = <<>>
    /\ EngineIdle
    /\ CostIdle

NextPaths == LlamarMasCortos \/ LlamarBfs

SpecPaths == InitPaths /\ [][NextPaths]_vars

\* A cost function is evaluated for a capacity at two flows.
InitCost ==
    /\ \E capacity \in CapacidadesCoste :
       \E flujo_a \in Flujos(capacity), flujo_b \in Flujos(capacity) :
           medida = [capacity |-> capacity, flujo_a |-> flujo_a, flujo_b |-> flujo_b,
                     funcion |-> "", valor_a |-> FZero, valor_b |-> FZero]
    /\ EngineIdle
    /\ PathsIdle

NextCost == EvaluarFPrima \/ EvaluarFDoublePrima

SpecCost == InitCost /\ [][NextCost]_vars

(***************************************************************************)
(* Properties of funcion_principal                                         *)
(***************************************************************************)

\* What Enlace.__eq__ compares: the value of a link.
Valor(e) == <<e.source, e.target, e.capacity>>

\* The paths of all the commodities, in the order of the lists.
RECURSIVE TodosLosPaths(_, _)
TodosLosPaths(cs, c) ==
    IF c > Len(cs) THEN <<>> ELSE cs[c].paths \o TodosLosPaths(cs, c + 1)

Contiene(path, valor) ==
    \E m \in 1..Len(path.enlaces) : Valor(path.enlaces[m]) = valor

\* The traffic of the paths that contain a link of the given value, added
\* from the n-th path on.
RECURSIVE TraficoSobre(_, _, _, _)
TraficoSobre(paths, valor, n, suma) ==
    IF n > Len(paths) THEN suma
    ELSE TraficoSobre(paths, valor, n + 1,
                      IF Contiene(paths[n], valor)
                      THEN FAdd(suma, paths[n].trafico) ELSE suma)

\* The commodities as they are before any traffic is assigned.
SinTrafico(cs) ==
    [c \in 1..Len(cs) |->
        [cs[c] EXCEPT !.paths =
            [j \in 1..Len(cs[c].paths) |-> [cs[c].paths[j] EXCEPT !.trafico = FZero]]]]

\* C1. Flow accounting: the entry of flujo_total that an iteration appends
\* holds, for every link value on some path, the sum of the traffic of all the
\* paths (of all commodities) that contain a link of that value, and holds
\* nothing else; Enlace objects with the same (source, target, capacity) share
\* one entry.
FlowAccounting ==
    (pc \in {"loop", "returned"} /\ i > 0) =>
        LET registro == iteraciones.flujo_total[i]
            paths == TodosLosPaths(commodities, 1)
        IN  /\ Len(iteraciones.flujo_total) = i
            /\ \A n \in 1..Len(registro) :
                  /\ registro[n].v =
                        TraficoSobre(paths, <<registro[n].k[1], registro[n].k[2],
                                               registro[n].k[3]>>, 1, FZero)
                  /\ \E j \in 1..Len(paths) :
                        Contiene(paths[j], <<registro[n].k[1], registro[n].k[2],
                                             registro[n].k[3]>>)
            /\ \A j \in 1..Len(paths) : \A m \in 1..Len(paths[j].enlaces) :
                  \E n \in 1..Len(registro) :
                      <<registro[n].k[1], registro[n].k[2], registro[n].k[3]>>
                          = Valor(paths[j].enlaces[m])
            /\ \A n, m \in 1..Len(registro) :
                  <<registro[n].k[1], registro[n].k[2], registro[n].k[3]>>
                      = <<registro[m].k[1], registro[m].k[2], registro[m].k[3]>>
                  => n = m

\* Two paths with traffic cross two Enlace objects of the same value, and the
\* one entry of that value holds more than either path carries.
FlowAccountingWitness ==
    /\ pc = "loop"
    /\ i > 1
    /\ LET registro == iteraciones.flujo_total[i]
           paths == TodosLosPaths(commodities, 1)
       IN  \E j1, j2 \in 1..Len(paths) :
           \E m1 \in 1..Len(paths[j1].enlaces), m2 \in 1..Len(paths[j2].enlaces) :
           \E n \in 1..Len(registro) :
               /\ j1 # j2
               /\ paths[j1].enlaces[m1].id # paths[j2].enlaces[m2].id
               /\ Valor(paths[j1].enlaces[m1]) = Valor(paths[j2].enlaces[m2])
               /\ registro[n].k = Valor(paths[j1].enlaces[m1])
               /\ FGt(paths[j1].trafico, FZero)
               /\ FGt(paths[j2].trafico, FZero)
               /\ FGt(registro[n].v, paths[j1].trafico)
               /\ FGt(registro[n].v, paths[j2].trafico)

\* sum(path.trafico for path in commodity.paths) from the n-th path on.
RECURSIVE SumaTrafico(_, _, _)
SumaTrafico(paths, n, suma) ==
    IF n > Len(paths) THEN suma
    ELSE SumaTrafico(paths, n + 1, FAdd(suma, paths[n].trafico))

\* The flow conservation test the simulators apply to a commodity after the
\* run: abs(total_trafico - requirement) >= 0.01 is a violation.
Tolerancia == FLit(1, -2)
Conserva(commodity) ==
    FLt(FAbs(FSub(SumaTrafico(commodity.paths, 1, FZero), commodity.requirement)),
        Tolerancia)

\* C2. Demand conservation at the end of the run: after the 200th iteration
\* the traffic of the paths of every commodity adds up to its requirement
\* within 0.01.
DemandConservation ==
    i = T => \A c \in 1..Len(commodities) : Conserva(commodities[c])

\* The run on the two commodities of simulador.py has returned, both within
\* the tolerance, with traffic on more than one path of each.
DemandConservationWitness ==
    /\ pc = "returned"
    /\ SinTrafico(commodities) = ScenarioA
    /\ Len(iteraciones.flujo_total) = T
    /\ \A c \in 1..Len(commodities) :
          /\ Conserva(commodities[c])
          /\ \E j1, j2 \in 1..Len(commodities[c].paths) :
                /\ j1 # j2
                /\ FGt(commodities[c].paths[j1].trafico, FZero)
                /\ FGt(commodities[c].paths[j2].trafico, FZero)

\* The j-th path of the c-th commodity is not the reference path at this
\* iteration and its H_kp is 0.0.
Degenerado(c, j) ==
    LET costes_commodity == CostesDe(commodities[c], iteraciones.costes_path[i], 1)
    IN  /\ costes_commodity # <<>>
        /\ MinKey(costes_commodity, 1, 1) \in 1..Len(commodities[c].paths)
        /\ j # MinKey(costes_commodity, 1, 1)
        /\ calcular_H_kp(commodities[c].paths[j],
                         commodities[c].paths[MinKey(costes_commodity, 1, 1)],
                         iteraciones.flujo_total[i]) = FZero

\* C3. Numeric degeneracy is skipped: an iteration t > 0 in which H_kp is 0
\* for a path that is not the reference divides by nothing, leaves the traffic
\* of that path as it was and goes on to the next iteration.
NumericDegeneracySkipped ==
    [][\A c \in 1..Len(commodities) : \A j \in 1..Len(commodities[c].paths) :
          (pc = "loop" /\ i > 0 /\ i < T /\ Degenerado(c, j)) =>
              /\ pc' = "loop"
              /\ i' = i + 1
              /\ commodities'[c].paths[j].trafico = commodities[c].paths[j].trafico]_vars

\* C4. Fixed iteration budget: when every commodity has a path, the call
\* never ends in an exception, and when it returns each of the three lists of
\* the ledger has exactly T entries.
FixedIterationBudget ==
    (\A c \in 1..Len(commodities) : Len(commodities[c].paths) >= 1) =>
        /\ pc \in {"loop", "returned"}
        /\ pc = "returned" =>
              /\ Len(iteraciones.flujo_total) = T
              /\ Len(iteraciones.costes_path) = T
              /\ Len(iteraciones.shortest_paths) = T

\* C5. A commodity without paths is rejected before the loop starts: with
\* such a commodity in the list no path of any commodity is ever assigned
\* traffic and no entry is ever appended to the ledger.
ZeroPathsRejectedBeforeLoop ==
    (\E c \in 1..Len(commodities) : Len(commodities[c].paths) = 0) =>
        /\ commodities = SinTrafico(commodities)
        /\ iteraciones.flujo_total = <<>>
        /\ iteraciones.costes_path = <<>>
        /\ iteraciones.shortest_paths = <<>>

\* C10. A commodity with a single path: once iteration 0 is done the traffic
\* of that path is the requirement, and it stays so at every later iteration,
\* whatever the commodities listed with it do.
SinglePathCarriesRequirement ==
    i >= 1 =>
        \A c \in 1..Len(commodities) :
            Len(commodities[c].paths) = 1 =>
                commodities[c].paths[1].trafico = commodities[c].requirement

\* The run has returned; a single-path commodity carries its requirement next
\* to a commodity that shares a link value with it and has moved its traffic
\* away from the uniform split.
SinglePathCarriesRequirementWitness ==
    /\ pc = "returned"
    /\ \E c, d \in 1..Len(commodities) :
          /\ Len(commodities[c].paths) = 1
          /\ FGt(commodities[c].requirement, FZero)
          /\ commodities[c].paths[1].trafico = commodities[c].requirement
          /\ Len(commodities[d].paths) > 1
          /\ commodities[d].paths[1].trafico # commodities[d].paths[2].trafico
          /\ \E j \in 1..Len(commodities[d].paths) :
             \E m \in 1..Len(commodities[d].paths[j].enlaces) :
                 Contiene(commodities[c].paths[1],
                          Valor(commodities[d].paths[j].enlaces[m]))

\* The two paths of a commodity have as many links, of the same capacities
\* one by one.
Simetrico(commodity) ==
    /\ Len(commodity.paths) = 2
    /\ Len(commodity.paths[1].enlaces) = Len(commodity.paths[2].enlaces)
    /\ \A n \in 1..Len(commodity.paths[1].enlaces) :
          commodity.paths[1].enlaces[n].capacity = commodity.paths[2].enlaces[n].capacity

\* The costs of the two paths of the only commodity are equal in the entry of
\* iteration 0.
IgualCoste ==
    /\ Len(iteraciones.costes_path) >= 1
    /\ Len(iteraciones.costes_path[1]) = 2
    /\ iteraciones.costes_path[1][1].v = iteraciones.costes_path[1][2].v

\* C11. Symmetric two-path commodity: a single commodity with two paths of
\* equal capacity and equal cost keeps requirement / 2 on each path after
\* iteration 0 and after every later iteration.
SymmetricSplitStays ==
    (Len(commodities) = 1 /\ i >= 1 /\ Simetrico(commodities[1]) /\ IgualCoste) =>
        \A j \in 1..2 :
            commodities[1].paths[j].trafico
                = FDiv(commodities[1].requirement, FInt(2))

\* The run of a symmetric commodity whose two paths share no link value has
\* returned with the uniform split.
SymmetricSplitStaysWitness ==
    /\ pc = "returned"
    /\ Len(commodities) = 1
    /\ Simetrico(commodities[1])
    /\ IgualCoste
    /\ FGt(commodities[1].requirement, FZero)
    /\ EnlacesSet(commodities[1].paths[1]) \cap EnlacesSet(commodities[1].paths[2]) = {}
    /\ \A j \in 1..2 :
          commodities[1].paths[j].trafico = FDiv(commodities[1].requirement, FInt(2))

\* The three lists of the ledger are as long as the iterations completed.
LedgerLengths ==
    /\ Len(iteraciones.flujo_total) = i
    /\ Len(iteraciones.costes_path) = i
    /\ Len(iteraciones.shortest_paths) = i

\* A step leaves every entry of the ledger as it is and appends at most one
\* entry to each list, one to each when it completes an iteration.
LedgerStep ==
    /\ \A t \in 1..Len(iteraciones.flujo_total) :
          /\ iteraciones'.flujo_total[t] = iteraciones.flujo_total[t]
          /\ iteraciones'.costes_path[t] = iteraciones.costes_path[t]
          /\ iteraciones'.shortest_paths[t] = iteraciones.shortest_paths[t]
    /\ Len(iteraciones'.flujo_total) = Len(iteraciones.flujo_total) + (i' - i)
    /\ i' - i \in {0, 1}

\* C12. Append-only ledger: at the end of every iteration the three lists of
\* the ledger have the same length, the number of completed iterations, and
\* an entry once appended is never changed by a later iteration.
AppendOnlyLedger == [](LedgerLengths) /\ [][LedgerStep]_vars

\* Two iterations have completed and the first entry, still in place, differs
\* from the second.
AppendOnlyLedgerWitness ==
    /\ pc = "loop"
    /\ i = 3
    /\ LedgerLengths
    /\ iteraciones.flujo_total[1] # iteraciones.flujo_total[2]
    /\ iteraciones.flujo_total[2] # iteraciones.flujo_total[3]
    /\ iteraciones.costes_path[1] # iteraciones.costes_path[2]
    /\ iteraciones.shortest_paths[1] # iteraciones.shortest_paths[2]

(***************************************************************************)
(* Properties of path discovery                                            *)
(***************************************************************************)

\* The nodes a path visits: the source of its first link and the target of
\* every link.
NodosVisitados(camino) ==
    IF camino = <<>> THEN <<>>
    ELSE <<camino[1].source>> \o [n \in 1..Len(camino) |-> camino[n].target]

SinRepetir(seq) == \A a, b \in 1..Len(seq) : seq[a] = seq[b] => a = b

\* C6. Only simple paths are returned: no path of the list a discovery
\* function returns visits a node more than once, the source and the target of
\* every link counted.
OnlySimplePaths ==
    llamada # "" =>
        \A n \in 1..Len(resultado) : SinRepetir(NodosVisitados(resultado[n]))

\* The paths of a list that have L links, in the order of the list.
DeLongitud(caminos, L) == SelectSeq(caminos, LAMBDA camino : Len(camino) = L)

\* The paths of a list by length, those of one length in the order of the list.
RECURSIVE PorLongitud(_, _)
PorLongitud(caminos, L) ==
    IF \A n \in 1..Len(caminos) : Len(caminos[n]) < L THEN <<>>
    ELSE DeLongitud(caminos, L) \o PorLongitud(caminos, L + 1)

Menor(a, b) == IF a < b THEN a ELSE b

\* The list is sorted by hop count and paths of one hop count are in the
\* order in which the depth-first expansion found them: it is the start of
\* the candidates taken by length.
EnOrden ==
    /\ \A a, b \in 1..Len(resultado) :
          a < b => Len(resultado[a]) <= Len(resultado[b])
    /\ \A a, b \in 1..Len(resultado) :
          (a < b /\ Len(resultado[a]) = Len(resultado[b])
                 /\ entrada.source # entrada.target) =>
              \E m, n \in 1..Len(todos_caminos) :
                  /\ m < n
                  /\ todos_caminos[m] = resultado[a]
                  /\ todos_caminos[n] = resultado[b]
    /\ entrada.source # entrada.target =>
          resultado = SubSeq(PorLongitud(todos_caminos, 0), 1,
                             Menor(entrada.k, Len(todos_caminos)))

RECURSIVE Alcanzables(_, _)
Alcanzables(lista, S) ==
    IF \A n \in 1..Len(lista) : lista[n].source \in S => lista[n].target \in S
    THEN S
    ELSE Alcanzables(lista,
             S \cup {lista[n].target : n \in {m \in 1..Len(lista) : lista[m].source \in S}})

\* C8. Edge cases: the result is the list of the one empty path exactly when
\* source = target, and it is the empty list whenever target cannot be
\* reached from source over the links; the call completes in both cases.
EdgeCases ==
    llamada # "" =>
        /\ (resultado = << <<>> >>) <=> (entrada.source = entrada.target)
        /\ entrada.target \notin Alcanzables(enlaces, {entrada.source}) =>
              resultado = <<>>

\* A call for k >= 1 paths from a source that has links to a target that
\* none of them leads to.
EdgeCasesWitness ==
    /\ llamada # ""
    /\ entrada.k >= 1
    /\ entrada.source # entrada.target
    /\ Grafo(enlaces, entrada.source) # <<>>
    /\ \E n \in 1..Len(enlaces) : enlaces[n].target = entrada.target
    /\ entrada.target \notin Alcanzables(enlaces, {entrada.source})
    /\ resultado = <<>>

\* A path as the sequence of the values of its links.
Valores(camino) == [n \in 1..Len(camino) |-> Valor(camino[n])]

\* C9. Distinct paths: no two paths of the list a discovery function returns
\* are equal as sequences of links compared by value.
DistinctPaths ==
    llamada # "" =>
        \A a, b \in 1..Len(resultado) :
            Valores(resultado[a]) = Valores(resultado[b]) => a = b

\* C13. Invalid capacity is rejected: a link with capacity <= 0 never enters
\* the model, so every link of every path that path discovery returns has a
\* capacity above 0.
InvalidCapacityRejected ==
    llamada # "" =>
        \A n \in 1..Len(resultado) : \A m \in 1..Len(resultado[n]) :
            FGt(resultado[n][m].capacity, FZero)

(***************************************************************************)
(* Properties of the cost model                                            *)
(***************************************************************************)

\* The threshold p * capacity of the capacity under evaluation.
Umbral == FMul(P99, medida.capacity)

\* The relative error allowed to rounding: a thousand times the precision of
\* the float format (six digits here).
Redondeo == FLit(1, -3)

\* a and b are equal up to rounding.
Cerca(a, b) == FLe(FAbs(FSub(a, b)), FMul(Redondeo, FAbs(b)))

CurvatureContinuous ==
    (/\ medida.funcion = "f_double_prima"
     /\ medida.flujo_a = Umbral
     /\ medida.flujo_b = Siguiente(Umbral)) =>
        Cerca(medida.valor_b, medida.valor_a)

(***************************************************************************)
(* Properties of the iteration: the reference path and the snapshots       *)
(***************************************************************************)

\* The ordinal of least cost among the entries a cost snapshot has for a
\* commodity, the smallest one when several have the least cost.
ArgminEstable(commodity, costes) ==
    LET d == CostesDe(commodity, costes, 1)
    IN  CHOOSE j \in {d[n].k : n \in 1..Len(d)} :
            \A n \in 1..Len(d) :
                /\ FLe(DictGet(d, j), d[n].v)
                /\ d[n].v = DictGet(d, j) => j <= d[n].k

\* Every entry of the ledger names, for every commodity, the stable argmin
\* of the costs of the same entry.
ReferenciaAnotada ==
    \A t \in 1..Len(iteraciones.shortest_paths) :
        \A c \in 1..Len(commodities) :
            /\ DictHas(iteraciones.shortest_paths[t], CommodityKey(commodities[c]))
            /\ DictGet(iteraciones.shortest_paths[t], CommodityKey(commodities[c]))
                  = ArgminEstable(commodities[c], iteraciones.costes_path[t])

\* An iteration t > 0 that completes leaves every commodity as its update
\* with the stable argmin of the costs of iteration t - 1 for reference
\* leaves it.
ReferenciaUsada ==
    (pc = "loop" /\ i > 0 /\ i' = i + 1) =>
        \A c \in 1..Len(commodities) :
            commodities'[c] =
                ActualizarDesdeMinimo(
                    commodities[c],
                    CostesDe(commodities[c], iteraciones.costes_path[i], 1),
                    ArgminEstable(commodities[c], iteraciones.costes_path[i]),
                    iteraciones.flujo_total[i]).commodity

\* C16. Stable reference selection: at every iteration t > 0 the reference
\* path of a commodity is a path whose cost in the cost snapshot of iteration
\* t - 1 is minimal among that commodity's paths, the one of smallest ordinal
\* when several paths share the minimal cost; the selection recorded in the
\* ledger is the same one.
StableReferenceSelection == [](ReferenciaAnotada) /\ [][ReferenciaUsada]_vars

\* An iteration t > 0 has completed for a commodity whose first two paths
\* shared the minimal cost in the snapshot of iteration t - 1 while a third
\* path cost more: the first was the reference, and it alone gained the
\* traffic the third path lost.
StableReferenceSelectionWitness ==
    /\ pc = "loop"
    /\ i = 2
    /\ Len(commodities) = 1
    /\ Len(commodities[1].paths) = 3
    /\ iteraciones.costes_path[1][1].v = iteraciones.costes_path[1][2].v
    /\ FLt(iteraciones.costes_path[1][1].v, iteraciones.costes_path[1][3].v)
    /\ iteraciones.shortest_paths[1][1].v = 1
    /\ FGt(commodities[1].paths[1].trafico, commodities[1].paths[2].trafico)
    /\ FGt(commodities[1].paths[2].trafico, commodities[1].paths[3].trafico)

\* The orders in which n commodities can be processed.
Ordenes(n) == {o \in [1..n -> 1..n] : \A a, b \in 1..n : o[a] = o[b] => a = b}

\* The updates of an iteration taken in the order `orden`, from its n-th
\* position on; an exception leaves the commodities not yet processed as they
\* were.
RECURSIVE ActualizarEnOrden(_, _, _, _, _)
ActualizarEnOrden(cs, costes_ant, flujo_ant, orden, n) ==
    IF n > Len(orden) THEN [commodities |-> cs, error |-> ""]
    ELSE LET r == ActualizarCommodity(cs[orden[n]], costes_ant, flujo_ant)
         IN  IF r.error # ""
             THEN [commodities |-> [cs EXCEPT ![orden[n]] = r.commodity],
                   error |-> r.error]
             ELSE ActualizarEnOrden([cs EXCEPT ![orden[n]] = r.commodity],
                                    costes_ant, flujo_ant, orden, n + 1)

\* The updates taken in the order `orden` leave the path traffics, and the
\* ledger, as the pass of the loop does.
MismoResultado(orden) ==
    /\ commodities' =
          ActualizarEnOrden(commodities, iteraciones.costes_path[i],
                            iteraciones.flujo_total[i], orden, 1).commodities
    /\ i' = i + 1 =>
          ActualizarEnOrden(commodities, iteraciones.costes_path[i],
                            iteraciones.flujo_total[i], orden, 1).error = ""

\* C17. Snapshot isolation between commodities: within an iteration t > 0
\* each update reads only the snapshots of iteration t - 1 and the traffic of
\* its own commodity's paths, and writes only that traffic, so processing the
\* commodities in any order produces the same path traffics and the same
\* ledger entry for iteration t.
SnapshotIsolation ==
    [][(pc = "loop" /\ i > 0 /\ i < T) =>
          \A orden \in Ordenes(Len(commodities)) : MismoResultado(orden)]_vars

\* C18. Per-path cost snapshot: in every entry t of the ledger, for every
\* listed commodity and every ordinal j of its paths, costes_path[t] has an
\* entry for (the commodity, j), and it is the sum of f_prima(capacity, flow)
\* over the links of that commodity's own j-th path, with the flows of the
\* same entry; also when two listed commodities have the same source, target
\* and requirement.
PerPathCostSnapshot ==
    \A t \in 1..Len(iteraciones.costes_path) :
        \A c \in 1..Len(commodities) :
            \A j \in 1..Len(commodities[c].paths) :
                /\ DictHas(iteraciones.costes_path[t],
                           <<CommodityKey(commodities[c]), j>>)
                /\ DictGet(iteraciones.costes_path[t],
                           <<CommodityKey(commodities[c]), j>>)
                      = CostePath(commodities[c].paths[j],
                                  iteraciones.flujo_total[t], 1, FZero)

(***************************************************************************)
(* Properties of path discovery: the candidates                            *)
(***************************************************************************)

\* C19. Candidate cap in encontrar_k_paths_bfs: the depth-first enumeration
\* stops once 3k candidate paths have been collected, so the candidate list
\* never holds more than 3k paths before it is sorted and truncated to k.
CandidateCap ==
    llamada = "bfs" => Len(todos_caminos) <= 3 * entrada.k

(***************************************************************************)
(* Properties of the iteration: zero-length paths                          *)
(***************************************************************************)

\* C20. Zero-length path carries no traffic: a path with an empty link
\* sequence (what path discovery returns for a commodity whose source is its
\* target) has traffic 0 after iteration 0 and after every later iteration.
ZeroLengthPathNoTraffic ==
    i >= 1 =>
        \A c \in 1..Len(commodities) :
            \A j \in 1..Len(commodities[c].paths) :
                commodities[c].paths[j].enlaces = <<>> =>
                    commodities[c].paths[j].trafico = FZero

(***************************************************************************)
(* Properties of the iteration: conservation and the direction of traffic  *)
(***************************************************************************)

\* The snapshot index the last completed iteration (i - 1 > 0) read.
Leido == i - 1

\* The reference path of the c-th commodity in the last completed update.
Referencia(c) == ArgminEstable(commodities[c], iteraciones.costes_path[Leido])

\* suma_flujo_otros as the loop over the commodity's costs accumulates it:
\* the traffic of the paths other than the reference, in the order of the
\* cost entries.
RECURSIVE SumaOtros(_, _, _, _, _)
SumaOtros(commodity, costes_commodity, path_minimo_id, n, suma) ==
    IF n > Len(costes_commodity) THEN suma
    ELSE SumaOtros(commodity, costes_commodity, path_minimo_id, n + 1,
             IF costes_commodity[n].k = path_minimo_id THEN suma
             ELSE FAdd(suma, commodity.paths[costes_commodity[n].k].trafico))

\* The residual of the c-th commodity in the last completed update.
Residual(c) ==
    FSub(commodities[c].requirement,
         SumaOtros(commodities[c],
                   CostesDe(commodities[c], iteraciones.costes_path[Leido], 1),
                   Referencia(c), 1, FZero))

\* C21. Exact conservation at every iteration: after iteration 0 every path
\* of a commodity with requirement >= 0 has requirement / num_paths, and
\* after every later iteration that completes the reference path has exactly
\* the residual, requirement less the sum of the other paths' traffic, which
\* is not negative, so that the floor at zero does not change it and the
\* traffic of the paths adds up to the requirement.
ExactConservation ==
    (pc \in {"loop", "returned"} /\ i >= 1) =>
        \A c \in 1..Len(commodities) :
            FLe(FZero, commodities[c].requirement) =>
                IF i = 1
                THEN \A j \in 1..Len(commodities[c].paths) :
                         commodities[c].paths[j].trafico
                             = FDiv(commodities[c].requirement,
                                    FInt(Len(commodities[c].paths)))
                ELSE /\ FLe(FZero, Residual(c))
                     /\ commodities[c].paths[Referencia(c)].trafico = Residual(c)
                     /\ Conserva(commodities[c])

\* An update has completed for a commodity of several paths: the reference
\* path has the residual, more than the uniform share, while the other paths
\* together still carry traffic.
ExactConservationWitness ==
    /\ pc = "loop"
    /\ i >= 3
    /\ \E c \in 1..Len(commodities) :
          /\ Len(commodities[c].paths) >= 3
          /\ FLt(FZero, Residual(c))
          /\ FLt(Residual(c), commodities[c].requirement)
          /\ commodities[c].paths[Referencia(c)].trafico = Residual(c)
          /\ FGt(Residual(c), FDiv(commodities[c].requirement,
                                   FInt(Len(commodities[c].paths))))
          /\ Referencia(c) # ArgminEstable(commodities[c], iteraciones.costes_path[1])

\* Every path's traffic is within [0, requirement] once iteration 0 is done.
DentroDelRequirement ==
    (pc \in {"loop", "returned"} /\ i >= 1) =>
        \A c \in 1..Len(commodities) :
            \A j \in 1..Len(commodities[c].paths) :
                /\ FLe(FZero, commodities[c].paths[j].trafico)
                /\ FLe(commodities[c].paths[j].trafico, commodities[c].requirement)

\* An update step t > 0 that completes leaves on every path other than the
\* reference a traffic that is not negative and not more than before.
HaciaLaReferencia ==
    (pc = "loop" /\ i > 0 /\ i' = i + 1) =>
        \A c \in 1..Len(commodities) :
            \A j \in 1..Len(commodities[c].paths) :
                j # ArgminEstable(commodities[c], iteraciones.costes_path[i]) =>
                    /\ FLe(FZero, commodities'[c].paths[j].trafico)
                    /\ FLe(commodities'[c].paths[j].trafico,
                           commodities[c].paths[j].trafico)

\* C22. Traffic only moves toward the reference path: in every update step
\* t > 0 that completes, each non-reference path's new traffic is >= 0 and
\* <= its traffic before the step, and every path's traffic stays within
\* [0, requirement] at every iteration.
TrafficMovesToReference == [](DentroDelRequirement) /\ [][HaciaLaReferencia]_vars

\* An update has completed for a commodity of three paths: one path other
\* than the reference lost a part of its uniform share, another lost all of
\* it, and the reference gained.
TrafficMovesToReferenceWitness ==
    /\ pc = "loop"
    /\ i = 2
    /\ \E c \in 1..Len(commodities) :
          /\ Len(commodities[c].paths) = 3
          /\ \E j, m \in 1..3 :
                /\ j # Referencia(c)
                /\ m # Referencia(c)
                /\ FLt(FZero, commodities[c].paths[j].trafico)
                /\ FLt(commodities[c].paths[j].trafico,
                       FDiv(commodities[c].requirement, FInt(3)))
                /\ commodities[c].paths[m].trafico = FZero
          /\ FGt(commodities[c].paths[Referencia(c)].trafico,
                 FDiv(commodities[c].requirement, FInt(3)))

\* The ordinal the ledger entry of iteration i - 1 records for a commodity.
Anotado(commodity) ==
    DictGet(iteraciones.shortest_paths[i], CommodityKey(commodity))

\* The update of a commodity at iteration i with the recorded ordinal for
\* reference.
ConLoAnotado(commodity) ==
    ActualizarDesdeMinimo(commodity,
                          CostesDe(commodity, iteraciones.costes_path[i], 1),
                          Anotado(commodity), iteraciones.flujo_total[i])

\* In an update step the engine updates every commodity with the ordinal
\* recorded in the entry before for reference, and the cost of that ordinal
\* is the least of the commodity's entries in the costs of that entry.
SeleccionSiguiente ==
    (pc = "loop" /\ i > 0 /\ i < T) =>
        \A c \in 1..Len(commodities) :
            /\ DictHas(iteraciones.shortest_paths[i], CommodityKey(commodities[c]))
            /\ \A n \in 1..Len(iteraciones.costes_path[i]) :
                  iteraciones.costes_path[i][n].k[1] = CommodityKey(commodities[c]) =>
                      FLe(DictGet(iteraciones.costes_path[i],
                                  <<CommodityKey(commodities[c]), Anotado(commodities[c])>>),
                          iteraciones.costes_path[i][n].v)
            /\ ActualizarCommodity(commodities[c], iteraciones.costes_path[i],
                                   iteraciones.flujo_total[i])
                  = ConLoAnotado(commodities[c])
            /\ i' = i + 1 => commodities'[c] = ConLoAnotado(commodities[c]).commodity

\* C23. Ledger selection matches the next update: for every iteration
\* t < T - 1 and every commodity, the ordinal recorded in shortest_paths[t] is
\* the reference path the engine uses when it updates the commodity at
\* iteration t + 1, and its cost is minimal among the commodity's entries in
\* costes_path[t]: it is the selection made from the costs of iteration t.
LedgerSelectionMatchesNextUpdate == [][SeleccionSiguiente]_vars

\* Two updates have completed, the ledger recorded different ordinals for a
\* commodity in two consecutive entries, and the path recorded in the later
\* one received the residual in the update that followed.
LedgerSelectionMatchesNextUpdateWitness ==
    /\ pc = "loop"
    /\ i >= 3
    /\ \E c \in 1..Len(commodities) :
          /\ Len(commodities[c].paths) >= 2
          /\ DictGet(iteraciones.shortest_paths[i - 1], CommodityKey(commodities[c]))
                # DictGet(iteraciones.shortest_paths[i - 2], CommodityKey(commodities[c]))
          /\ DictGet(iteraciones.shortest_paths[i - 1], CommodityKey(commodities[c]))
                = Referencia(c)
          /\ commodities[c].paths[Referencia(c)].trafico = Residual(c)
          /\ FLt(Residual(c), commodities[c].requirement)

(***************************************************************************)
(* Properties of path discovery: routes and distances                      *)
(***************************************************************************)

\* camino is a non-empty route from source to target over links of the list.
EsRuta(camino, source, target, lista) ==
    /\ camino # <<>>
    /\ camino[1].source = source
    /\ camino[Len(camino)].target = target
    /\ \A n \in 1..(Len(camino) - 1) : camino[n].target = camino[n + 1].source
    /\ \A n \in 1..Len(camino) : \E m \in 1..Len(lista) : lista[m] = camino[n]

\* C24. Discovered paths are contiguous source-to-target routes: for
\* source # target, every path returned by encontrar_k_paths_mas_cortos and
\* encontrar_k_paths_bfs is non-empty, its first link starts at source, its
\* last link ends at target, consecutive links meet, and every link is an
\* element of the given list of links.
ContiguousRoutes ==
    (llamada # "" /\ entrada.source # entrada.target) =>
        \A n \in 1..Len(resultado) :
            EsRuta(resultado[n], entrada.source, entrada.target, enlaces)

\* A call for two paths between different nodes returned two routes, one of
\* them of two links or more.
ContiguousRoutesWitness ==
    /\ llamada # ""
    /\ entrada.source # entrada.target
    /\ Len(resultado) = 2
    /\ Len(resultado[2]) >= 2
    /\ \A n \in 1..2 : EsRuta(resultado[n], entrada.source, entrada.target, enlaces)

\* The least number of links of a route from the nodes of S to target, which
\* can be reached from them, counted from n.
RECURSIVE Saltos(_, _, _, _)
Saltos(lista, S, target, n) ==
    IF target \in S THEN n
    ELSE Saltos(lista,
                S \cup {lista[m].target : m \in {a \in 1..Len(lista) : lista[a].source \in S}},
                target, n + 1)

\* The minimum hop distance of the call, whose target can be reached.
DistMin == Saltos(enlaces, {entrada.source}, entrada.target, 0)

\* The search bound of the call.
Cota ==
    IF llamada = "bfs"
    THEN (IF entrada.max_length = <<>> THEN DistMin + 3 ELSE entrada.max_length[1])
    ELSE DistMin + 2

\* The call is for k >= 1 paths to another node that can be reached.
Alcanzable ==
    /\ llamada # ""
    /\ entrada.source # entrada.target
    /\ entrada.k >= 1
    /\ entrada.target \in Alcanzables(enlaces, {entrada.source})

\* The result is not empty, its first path has DistMin links and every path
\* has between DistMin and Cota links.
HallaElMasCorto ==
    /\ resultado # <<>>
    /\ Len(resultado[1]) = DistMin
    /\ \A n \in 1..Len(resultado) :
          DistMin <= Len(resultado[n]) /\ Len(resultado[n]) <= Cota

\* C25 as stated. Shortest path is always found: whenever target is reachable
\* from source, source # target and k >= 1, the result is non-empty, its
\* first path has the minimum hop distance d and every returned path has
\* between d and the search bound links (d + 2; max_length, or d + 3 when it
\* is not given), so an empty result means the target is unreachable.
ShortestPathFound == Alcanzable => HallaElMasCorto

\* C25. Shortest path is found within the bound: as stated, for
\* encontrar_k_paths_mas_cortos, and for encontrar_k_paths_bfs when
\* max_length is not given or is at least d; with a max_length below d the
\* result of encontrar_k_paths_bfs is empty.
ShortestPathFoundWithinBound ==
    Alcanzable =>
        IF Cota >= DistMin THEN HallaElMasCorto ELSE resultado = <<>>

\* A call for two paths to a node that can be reached returned a path of the
\* minimum distance and a longer one within the bound.
ShortestPathFoundWitness ==
    /\ Alcanzable
    /\ Cota >= DistMin
    /\ Len(resultado) = 2
    /\ Len(resultado[1]) = DistMin
    /\ Len(resultado[2]) > DistMin
    /\ Len(resultado[2]) <= Cota
====
